---- MODULE Spec2Model ----
(***************************************************************************)
(* Model of src/src/lib/sse.ts: the in-memory registry of Server-Sent      *)
(* Events connections (clients: Map<string, Set<Client>>), the dispatch    *)
(* operations sendEvent / broadcast, the heartbeat interval and the        *)
(* stream lifecycle of createSSEStream.                                    *)
(*                                                                         *)
(* JavaScript runs every exported function and every timer / stream        *)
(* callback to completion on one thread, so each of them is one action.    *)
(* Inside an action the Map and the Sets are handled as ECMAScript does:   *)
(* insertion-ordered entry lists in which a deleted entry becomes an       *)
(* ~empty~ slot that a live iterator steps over.  No iterator outlives a   *)
(* call, so the empty slots are dropped when the call returns (Commit).    *)
(***************************************************************************)
EXTENDS Integers, Sequences, FiniteSets, TLC

\* ------------------------------------------------------------------ bounds
MaxSinks == 3      \* ReadableStream controllers ever created (Spec)
MaxTime == 1       \* largest value Date.now() takes
NumClients == 2    \* client identities in use (Spec)
MaxIntervals == 2  \* setInterval calls followed (SpecReload)
MetricsClients == 40 \* clients connected at once (SpecMetrics)
MetricsExtra == 2    \* further connections of the first of them (SpecMetrics)
FanoutSinks == 4   \* controllers ever created (SpecFanout)
FanoutClients == 3 \* client identities in use (SpecFanout)

ClientId(i) == "c" \o ToString(i)
ClientIds == { ClientId(i) : i \in 1..NumClients }
FanoutIds == { ClientId(i) : i \in 1..FanoutClients }
Sinks == 1..(IF MaxSinks > FanoutSinks THEN MaxSinks ELSE FanoutSinks)

Undefined == "undefined"
Names == {Undefined, "alice"}     \* name?: string
NoController == 0          \* an omitted `controller` argument
NoClient == "none"

EventNames == {"alert"}
\* payload: unknown.  An object literal, and a value JSON.stringify rejects.
Payloads == {[kind |-> "object", msg |-> "x"], [kind |-> "cyclic", msg |-> ""]}

VARIABLES
    clients,         \* global.sseClients: the Map, as its entries in insertion order
    sink,            \* state of each controller's stream
    streamClient,    \* clientId captured by the closures of each created stream
    now,             \* Date.now()
    heartbeatTimer,  \* the module variable: 0 (null) or the handle of the interval
    intervals,       \* handles of the intervals that are ticking
    last             \* the call that ran last: its arguments, writes and result

vars == <<clients, sink, streamClient, now, heartbeatTimer, intervals, last>>

\* ------------------------------------------------------- the Client record
Client(clientId, name, controller, t) ==
    [id |-> clientId, name |-> name, controller |-> controller,
     lastSeen |-> t, connectedAt |-> t]

\* ------------------------------------------------ ECMAScript Map and Set
\* The heap of one call: map entries <<key, ref>>, the Set objects by ref,
\* the streams, and what the call has written so far.
Slot(v) == [empty |-> FALSE, val |-> v]

Load(cl, sk) ==
    [map  |-> [i \in 1..Len(cl) |-> [empty |-> FALSE, key |-> cl[i].key, ref |-> i]],
     sets |-> [i \in 1..Len(cl) |-> [j \in 1..Len(cl[i].set) |-> Slot(cl[i].set[j])]],
     sink |-> sk,
     writes |-> <<>>]

RECURSIVE Live(_)
Live(slots) ==
    IF slots = <<>> THEN <<>>
    ELSE IF Head(slots).empty THEN Live(Tail(slots))
    ELSE <<Head(slots).val>> \o Live(Tail(slots))

\* Array.from(set)
ArrayFrom(H, ref) == Live(H.sets[ref])

RECURSIVE CommitFrom(_, _)
CommitFrom(H, i) ==
    IF i > Len(H.map) THEN <<>>
    ELSE IF H.map[i].empty THEN CommitFrom(H, i + 1)
    ELSE <<[key |-> H.map[i].key, set |-> ArrayFrom(H, H.map[i].ref)]>>
         \o CommitFrom(H, i + 1)

Commit(H) == CommitFrom(H, 1)

\* A mutated clients.get(key): the key is not compared, the first entry wins.
MapGetFirst(H, key) ==
    LET hit == { i \in 1..Len(H.map) : ~H.map[i].empty }
    IN  IF hit = {} THEN 0 ELSE H.map[CHOOSE i \in hit : \A j \in hit : i <= j].ref

\* clients.get(key): the ref of the Set, 0 for undefined
MapGet(H, key) ==
    LET hit == { i \in 1..Len(H.map) : ~H.map[i].empty /\ H.map[i].key = key }
    IN  IF hit = {} THEN 0 ELSE H.map[CHOOSE i \in hit : TRUE].ref

MapHas(H, key) == MapGet(H, key) # 0

\* clients.set(key, new Set()) for a key that is absent
MapSetNew(H, key) ==
    [H EXCEPT !.map = Append(@, [empty |-> FALSE, key |-> key, ref |-> Len(H.sets) + 1]),
              !.sets = Append(@, <<>>)]

\* clients.delete(key): the entry becomes an empty slot
MapDelete(H, key) ==
    [H EXCEPT !.map = [i \in 1..Len(@) |->
        IF ~@[i].empty /\ @[i].key = key THEN [@[i] EXCEPT !.empty = TRUE] ELSE @[i]]]

\* set.add(c), c a new object
SetAdd(H, ref, c) == [H EXCEPT !.sets[ref] = Append(@, Slot(c))]

\* A mutated set.delete(c): the entry is spliced out of the list, so the
\* entries behind it move up under a live iterator.
SetDeleteSplice(H, ref, controller) ==
    [H EXCEPT !.sets[ref] = SelectSeq(@, LAMBDA s : s.empty \/ s.val.controller # controller)]

\* set.delete(c): the entry of that object becomes an empty slot.  A Client
\* object is identified by its controller (one object per controller).
SetDelete(H, ref, controller) ==
    [H EXCEPT !.sets[ref] = [j \in 1..Len(@) |->
        IF ~@[j].empty /\ @[j].val.controller = controller
        THEN [@[j] EXCEPT !.empty = TRUE] ELSE @[j]]]

SetSize(H, ref) == Len(ArrayFrom(H, ref))

\* A mutated update: connectedAt is overwritten together with lastSeen.
SetLastSeenAndConnectedAt(H, ref, controller, t) ==
    [H EXCEPT !.sets[ref] = [j \in 1..Len(@) |->
        IF @[j].val.controller = controller
        THEN [@[j] EXCEPT !.val.lastSeen = t, !.val.connectedAt = t] ELSE @[j]]]

\* c.lastSeen = t, on the object (wherever it is referenced from)
SetLastSeen(H, ref, controller, t) ==
    [H EXCEPT !.sets[ref] = [j \in 1..Len(@) |->
        IF @[j].val.controller = controller
        THEN [@[j] EXCEPT !.val.lastSeen = t] ELSE @[j]]]

\* ------------------------------------------------------------ the streams
\* controller.enqueue(chunk) throws unless the stream is readable.
CanEnqueue(H, s) == H.sink[s] = "readable"

Enqueue(H, s, chunk) ==
    [H EXCEPT !.writes = Append(@, [to |-> s, chunk |-> chunk, ok |-> CanEnqueue(H, s)])]

\* try { c.controller.close() } catch {}
TryClose(H, s) ==
    IF H.sink[s] = "readable" THEN [H EXCEPT !.sink[s] = "closed"] ELSE H

\* ------------------------------------------------------------ removeClient
\* A mutated set.forEach: only the first connection is closed.
CloseFirst(H, arr) ==
    IF arr = <<>> THEN H ELSE TryClose(H, Head(arr).controller)

\* set.forEach((c) => { try { c.controller.close() } catch {} })
RECURSIVE CloseEach(_, _)
CloseEach(H, arr) ==
    IF arr = <<>> THEN H ELSE CloseEach(TryClose(H, Head(arr).controller), Tail(arr))

\* A mutated removeClient: the key is kept when its last connection goes.
removeClientKeepKey(H, clientId, controller) ==
    LET ref == MapGet(H, clientId) IN
    IF ref = 0 THEN H
    ELSE IF controller = NoController
    THEN MapDelete(CloseEach(H, ArrayFrom(H, ref)), clientId)
    ELSE IF \E k \in 1..Len(ArrayFrom(H, ref)) : ArrayFrom(H, ref)[k].controller = controller
         THEN TryClose(SetDelete(H, ref, controller), controller)
         ELSE H

\* A mutated removeClient: the matching connection is closed but stays in
\* the set.
removeClientCloseOnly(H, clientId, controller) ==
    LET ref == MapGet(H, clientId) IN
    IF ref = 0 THEN H
    ELSE IF controller = NoController
    THEN MapDelete(CloseEach(H, ArrayFrom(H, ref)), clientId)
    ELSE LET arr == ArrayFrom(H, ref)
         IN  IF \E k \in 1..Len(arr) : arr[k].controller = controller
             THEN TryClose(H, controller)
             ELSE H

\* A mutated removeClient: close() is called before set.delete(c) and outside
\* the try, so a close that throws leaves the connection in the set.
removeClientIfClosed(H, clientId, controller) ==
    LET ref == MapGet(H, clientId) IN
    IF ref = 0 THEN H
    ELSE IF controller = NoController
    THEN MapDelete(CloseEach(H, ArrayFrom(H, ref)), clientId)
    ELSE LET arr == ArrayFrom(H, ref)
             H1 == IF /\ \E k \in 1..Len(arr) : arr[k].controller = controller
                      /\ H.sink[controller] = "readable"
                   THEN TryClose(SetDelete(H, ref, controller), controller)
                   ELSE H
         IN  IF SetSize(H1, ref) = 0 THEN MapDelete(H1, clientId) ELSE H1

\* A mutated removeClient: the controller argument is ignored, as in a call
\* that forgets to pass it.
removeClientAll(H, clientId, controller) ==
    LET ref == MapGet(H, clientId) IN
    IF ref = 0 THEN H
    ELSE MapDelete(CloseEach(H, ArrayFrom(H, ref)), clientId)

removeClient(H, clientId, controller) ==
    LET ref == MapGet(H, clientId) IN
    IF ref = 0 THEN H
    ELSE IF controller = NoController
    THEN \* remove all connections for this client
         MapDelete(CloseEach(H, ArrayFrom(H, ref)), clientId)
    ELSE \* remove specific connection
         LET arr == ArrayFrom(H, ref)
             H1 == IF \E k \in 1..Len(arr) : arr[k].controller = controller
                   THEN TryClose(SetDelete(H, ref, controller), controller)
                   ELSE H
         IN  IF SetSize(H1, ref) = 0 THEN MapDelete(H1, clientId) ELSE H1

\* --------------------------------------------------------------- addClient
\* A mutated addClient: a second record for the same controller is added.
addClientTwice(H, clientId, controller, name) ==
    LET c == Client(clientId, name, controller, now)
        H1 == IF ~MapHas(H, clientId) THEN MapSetNew(H, clientId) ELSE H
    IN  SetAdd(SetAdd(H1, MapGet(H1, clientId), c), MapGet(H1, clientId), c)

\* A mutated addClient: the Set is created on every call, not only for a
\* client id that has none.
addClientFreshSet(H, clientId, controller, name) ==
    LET c == Client(clientId, name, controller, now)
        H1 == IF ~MapHas(H, clientId) THEN MapSetNew(H, clientId)
              ELSE [H EXCEPT !.sets[MapGet(H, clientId)] = <<>>]
    IN  SetAdd(H1, MapGet(H1, clientId), c)

addClient(H, clientId, controller, name) ==
    LET c == Client(clientId, name, controller, now)
        H1 == IF ~MapHas(H, clientId) THEN MapSetNew(H, clientId) ELSE H
    IN  SetAdd(H1, MapGet(H1, clientId), c)

\* ----------------------------------------------------------------- frames
\* JSON.stringify(payload): the text, or a TypeError
JSONstringify(payload) ==
    IF payload.kind = "cyclic" THEN [threw |-> TRUE, text |-> ""]
    ELSE [threw |-> FALSE, text |-> "{\"msg\":\"" \o payload.msg \o "\"}"]

Chunk(eventName, data) == "event: " \o eventName \o "\ndata: " \o data \o "\n\n"

HeartbeatChunk(t) == "event: __heartbeat\ndata: " \o "{\"ts\":" \o ToString(t) \o "}" \o "\n\n"

OkChunk == ":ok\n\n"

ConnectedChunk(clientId, name, t) ==
    "event: __connected\ndata: " \o "{\"message\":\"connected\",\"ts\":" \o ToString(t)
      \o ",\"clientId\":\"" \o clientId \o "\""
      \o (IF name = Undefined THEN "" ELSE ",\"name\":\"" \o name \o "\"") \o "}" \o "\n\n"

\* --------------------------------------------------------------- sendEvent
\* for (const c of set): a live iterator over the entry list of the Set
RECURSIVE SendLoop(_, _, _, _, _, _)
SendLoop(H, clientId, ref, chunk, i, sentCount) ==
    IF i > Len(H.sets[ref]) THEN [H |-> H, sentCount |-> sentCount]
    ELSE IF H.sets[ref][i].empty THEN SendLoop(H, clientId, ref, chunk, i + 1, sentCount)
    ELSE LET s == H.sets[ref][i].val.controller
             H1 == Enqueue(H, s, chunk)
         IN  IF CanEnqueue(H, s)
             THEN SendLoop(SetLastSeen(H1, ref, s, now), clientId, ref, chunk, i + 1,
                           sentCount + 1)
             ELSE \* remove failing connection
                  SendLoop(removeClient(H1, clientId, s), clientId, ref, chunk, i + 1,
                           sentCount)

\* A mutated result: true as soon as the client had connections.
SendResultAny(sentCount) == sentCount >= 0

\* return sentCount > 0
SendResult(sentCount) == sentCount > 0

\* --------------------------------------------------------------- broadcast
\* for (const c of Array.from(set)): the array is a snapshot
RECURSIVE BroadcastInner(_, _, _, _, _, _)
BroadcastInner(H, clientId, ref, arr, chunk, clientSent) ==
    IF arr = <<>> THEN [H |-> H, clientSent |-> clientSent]
    ELSE LET s == Head(arr).controller
             H1 == Enqueue(H, s, chunk)
         IN  IF CanEnqueue(H, s)
             THEN BroadcastInner(SetLastSeen(H1, ref, s, now), clientId, ref, Tail(arr),
                                 chunk, clientSent + 1)
             ELSE BroadcastInner(removeClient(H1, clientId, s), clientId, ref, Tail(arr),
                                 chunk, clientSent)

\* A mutated outer loop: it counts the clients that received the frame.
RECURSIVE BroadcastOuterCountClients(_, _, _, _, _)
BroadcastOuterCountClients(H, chunk, i, totalSent, totalClients) ==
    IF i > Len(H.map)
    THEN [H |-> H, totalSent |-> totalSent, totalClients |-> totalClients]
    ELSE IF H.map[i].empty
    THEN BroadcastOuterCountClients(H, chunk, i + 1, totalSent, totalClients)
    ELSE LET e == H.map[i]
             r == BroadcastInner(H, e.key, e.ref, ArrayFrom(H, e.ref), chunk, 0)
         IN  BroadcastOuterCountClients(r.H, chunk, i + 1,
                            IF r.clientSent > 0 THEN totalSent + 1 ELSE totalSent,
                            totalClients + 1)

\* for (const [clientId, set] of clients): a live iterator over the Map
RECURSIVE BroadcastOuter(_, _, _, _, _)
BroadcastOuter(H, chunk, i, totalSent, totalClients) ==
    IF i > Len(H.map)
    THEN [H |-> H, totalSent |-> totalSent, totalClients |-> totalClients]
    ELSE IF H.map[i].empty THEN BroadcastOuter(H, chunk, i + 1, totalSent, totalClients)
    ELSE LET e == H.map[i]
             r == BroadcastInner(H, e.key, e.ref, ArrayFrom(H, e.ref), chunk, 0)
         IN  BroadcastOuter(r.H, chunk, i + 1,
                            IF r.clientSent > 0 THEN totalSent + r.clientSent ELSE totalSent,
                            totalClients + 1)

\* --------------------------------------------------------- heartbeat tick
\* A mutated inner loop: a failed write is counted but the connection stays.
RECURSIVE HeartbeatInnerKeep(_, _, _, _, _, _)
HeartbeatInnerKeep(H, clientId, ref, arr, t, deadConnections) ==
    IF arr = <<>> THEN [H |-> H, deadConnections |-> deadConnections]
    ELSE LET s == Head(arr).controller
             H1 == Enqueue(H, s, HeartbeatChunk(t))
         IN  IF CanEnqueue(H, s)
             THEN HeartbeatInnerKeep(SetLastSeen(H1, ref, s, t), clientId, ref,
                                     Tail(arr), t, deadConnections)
             ELSE HeartbeatInnerKeep(H1, clientId, ref, Tail(arr), t, deadConnections + 1)

\* A mutated inner loop: the failing controller is not passed on, so the
\* eviction takes every connection of the client.
RECURSIVE HeartbeatInnerRemoveAll(_, _, _, _, _, _)
HeartbeatInnerRemoveAll(H, clientId, ref, arr, t, deadConnections) ==
    IF arr = <<>> THEN [H |-> H, deadConnections |-> deadConnections]
    ELSE LET s == Head(arr).controller
             H1 == Enqueue(H, s, HeartbeatChunk(t))
         IN  IF CanEnqueue(H, s)
             THEN HeartbeatInnerRemoveAll(SetLastSeen(H1, ref, s, t), clientId, ref,
                                          Tail(arr), t, deadConnections)
             ELSE HeartbeatInnerRemoveAll(removeClient(H1, clientId, NoController),
                                          clientId, ref, Tail(arr), t, deadConnections + 1)

RECURSIVE HeartbeatInner(_, _, _, _, _, _)
HeartbeatInner(H, clientId, ref, arr, t, deadConnections) ==
    IF arr = <<>> THEN [H |-> H, deadConnections |-> deadConnections]
    ELSE LET s == Head(arr).controller
             H1 == Enqueue(H, s, HeartbeatChunk(t))
         IN  IF CanEnqueue(H, s)
             THEN HeartbeatInner(SetLastSeen(H1, ref, s, t), clientId, ref, Tail(arr), t,
                                 deadConnections)
             ELSE \* remove failing client
                  HeartbeatInner(removeClient(H1, clientId, s), clientId, ref, Tail(arr), t,
                                 deadConnections + 1)

RECURSIVE HeartbeatOuter(_, _, _, _)
HeartbeatOuter(H, t, i, deadConnections) ==
    IF i > Len(H.map) THEN [H |-> H, deadConnections |-> deadConnections]
    ELSE IF H.map[i].empty THEN HeartbeatOuter(H, t, i + 1, deadConnections)
    ELSE LET e == H.map[i]
             r == HeartbeatInner(H, e.key, e.ref, ArrayFrom(H, e.ref), t, deadConnections)
         IN  HeartbeatOuter(r.H, t, i + 1, r.deadConnections)

\* ---------------------------------------------------------------- queries
\* The read-only exports, as functions of the Map cl they read.
\* for (const set of clients.values()) total += set.size
RECURSIVE SumSizes(_, _, _)
SumSizes(cl, i, total) ==
    IF i > Len(cl) THEN total ELSE SumSizes(cl, i + 1, total + Len(cl[i].set))

\* A mutated totalConnections: one per client instead of set.size.
totalConnectionsPerClient(cl) == Len(cl)

totalConnections(cl) == SumSizes(cl, 1, 0)

\* ------------------------------------------------------- Number arithmetic
\* A positive Number (IEEE 754 binary64) is [bits, exp]: the significand as
\* its binary digits, most significant first, and the value bits * 2^exp.
Precision == 53

\* Long division and multiplication go LimbBits binary digits at a time.
LimbBits == 13

\* how many binary digits k has
BitLength(k) == CHOOSE w \in 0..30 : k < 2^w /\ (w = 0 \/ 2^(w - 1) <= k)

\* the last w binary digits of k
LowBits(k, w) == [i \in 1..w |-> (k \div 2^(w - i)) % 2]

BitsOfNat(k) == LowBits(k, BitLength(k))

RECURSIVE NatOfBitsFrom(_, _, _)
NatOfBitsFrom(b, i, acc) ==
    IF i > Len(b) THEN acc ELSE NatOfBitsFrom(b, i + 1, 2 * acc + b[i])

NatOfBits(b) == NatOfBitsFrom(b, 1, 0)

StripLeadingZeros(b) ==
    IF \A i \in 1..Len(b) : b[i] = 0 THEN <<>>
    ELSE SubSeq(b, CHOOSE i \in 1..Len(b) : b[i] = 1 /\ \A h \in 1..(i - 1) : b[h] = 0, Len(b))

\* the first count binary digits of r / d behind the point, for r < d
RECURSIVE FracBits(_, _, _)
FracBits(r, d, count) ==
    IF count = 0 THEN <<>>
    ELSE LET w == IF count < LimbBits THEN count ELSE LimbBits
         IN  LowBits((r * 2^w) \div d, w) \o FracBits((r * 2^w) % d, d, count - w)

\* what is left of r / d behind those digits
RECURSIVE FracRem(_, _, _)
FracRem(r, d, count) ==
    IF count = 0 THEN r
    ELSE LET w == IF count < LimbBits THEN count ELSE LimbBits
         IN  FracRem((r * 2^w) % d, d, count - w)

\* b + 1
Increment(b) ==
    IF \A i \in 1..Len(b) : b[i] = 1 THEN <<1>> \o [i \in 1..Len(b) |-> 0]
    ELSE LET z == CHOOSE i \in 1..Len(b) : b[i] = 0 /\ \A h \in (i + 1)..Len(b) : b[h] = 1
         IN  [i \in 1..Len(b) |-> IF i < z THEN b[i] ELSE IF i = z THEN 1 ELSE 0]

\* b * k for a small k, LimbBits digits at a time from the right
RECURSIVE TimesFrom(_, _, _, _)
TimesFrom(b, k, hi, carry) ==
    IF hi = 0 THEN BitsOfNat(carry)
    ELSE LET lo == IF hi > LimbBits THEN hi - LimbBits + 1 ELSE 1
             v == NatOfBits(SubSeq(b, lo, hi)) * k + carry
         IN  TimesFrom(b, k, lo - 1, v \div 2^LimbBits) \o LowBits(v % 2^LimbBits, LimbBits)

Times(b, k) == StripLeadingZeros(TimesFrom(b, k, Len(b), 0))

\* Round the digits b (leading digit 1, value b * 2^exp, sticky: something
\* non-zero lies behind them) to Precision digits, to nearest, ties to even.
RoundToNearestEven(b, exp, sticky) ==
    IF Len(b) <= Precision THEN [bits |-> b, exp |-> exp]
    ELSE LET kept == SubSeq(b, 1, Precision)
             guard == b[Precision + 1]
             rest == sticky \/ \E j \in (Precision + 2)..Len(b) : b[j] = 1
             up == guard = 1 /\ (rest \/ kept[Precision] = 1)
         IN  [bits |-> IF up THEN Increment(kept) ELSE kept,
              exp |-> exp + (Len(b) - Precision)]

\* n / d for integers n >= d > 0
NumberDivide(n, d) ==
    LET whole == BitsOfNat(n \div d)
        count == Precision + 1 - Len(whole)
    IN  RoundToNearestEven(whole \o FracBits(n % d, d, count), 0 - count,
                           FracRem(n % d, d, count) # 0)

\* x * 100
NumberTimes100(x) == RoundToNearestEven(Times(x.bits, 100), x.exp, FALSE)

\* Math.round(x): the nearest integer, a tie goes up (x.exp < 0)
MathRound(x) ==
    LET whole == Len(x.bits) + x.exp
    IN  NatOfBits(SubSeq(x.bits, 1, whole)) + x.bits[whole + 1]

\* A mutated rounding: Math.floor in place of Math.round.
RoundHundredthsFloor(n, d) == (100 * n) \div d

\* Math.round((n / d) * 100) / 100, as the number of hundredths
RoundHundredths(n, d) == MathRound(NumberTimes100(NumberDivide(n, d)))

getConnectionMetrics(cl) ==
    LET total == SumSizes(cl, 1, 0)
        totalClients == Len(cl)
    IN  [totalConnections |-> total,
         totalClients |-> totalClients,
         averageConnectionsPerClient |->
             IF totalClients > 0 THEN RoundHundredths(total, totalClients) ELSE 0]

\* Array.from(clients.keys())
getConnectedClients(cl) == [i \in 1..Len(cl) |-> cl[i].key]

\* const set = clients.get(clientId); return set ? set.size > 0 : false
hasClientConnections(cl, clientId) ==
    LET hits == { i \in 1..Len(cl) : cl[i].key = clientId } IN
    IF hits = {} THEN FALSE ELSE Len(cl[CHOOSE i \in hits : TRUE].set) > 0

\* -------------------------------------------------------- getClientDetails
\* A mutated lastSeen: that of the first connection, like name and connectedAt.
MathMaxFirst(q) == q[1]

\* Math.max(...q) for a non-empty q
RECURSIVE MathMax(_)
MathMax(q) ==
    IF Len(q) = 1 THEN q[1]
    ELSE LET m == MathMax(Tail(q)) IN IF q[1] > m THEN q[1] ELSE m

\* A mutated loop: connectionCount is clients.size, not clientSet.size.
RECURSIVE DetailsLoopMapSize(_, _, _)
DetailsLoopMapSize(cl, i, details) ==
    IF i > Len(cl) THEN details
    ELSE IF Len(cl[i].set) > 0
    THEN LET firstClient == cl[i].set[1]
         IN  DetailsLoopMapSize(cl, i + 1, Append(details,
                 [id |-> cl[i].key,
                  name |-> firstClient.name,
                  connectionCount |-> Len(cl),
                  connectedAt |-> firstClient.connectedAt,
                  lastSeen |-> MathMax([j \in 1..Len(cl[i].set) |-> cl[i].set[j].lastSeen])]))
    ELSE DetailsLoopMapSize(cl, i + 1, details)

\* A mutated loop: the metadata come from the last connection of the set.
RECURSIVE DetailsLoopLast(_, _, _)
DetailsLoopLast(cl, i, details) ==
    IF i > Len(cl) THEN details
    ELSE IF Len(cl[i].set) > 0
    THEN LET firstClient == cl[i].set[Len(cl[i].set)]
         IN  DetailsLoopLast(cl, i + 1, Append(details,
                 [id |-> cl[i].key,
                  name |-> firstClient.name,
                  connectionCount |-> Len(cl[i].set),
                  connectedAt |-> firstClient.connectedAt,
                  lastSeen |-> MathMax([j \in 1..Len(cl[i].set) |-> cl[i].set[j].lastSeen])]))
    ELSE DetailsLoopLast(cl, i + 1, details)

\* for (const [clientId, clientSet] of clients) { if (clientSet.size > 0) ... push }
RECURSIVE DetailsLoop(_, _, _)
DetailsLoop(cl, i, details) ==
    IF i > Len(cl) THEN details
    ELSE IF Len(cl[i].set) > 0
    THEN LET firstClient == cl[i].set[1]
         IN  DetailsLoop(cl, i + 1, Append(details,
                 [id |-> cl[i].key,
                  name |-> firstClient.name,
                  connectionCount |-> Len(cl[i].set),
                  connectedAt |-> firstClient.connectedAt,
                  lastSeen |-> MathMax([j \in 1..Len(cl[i].set) |-> cl[i].set[j].lastSeen])]))
    ELSE DetailsLoop(cl, i + 1, details)

\* A mutated comparator: a.connectedAt - b.connectedAt, oldest first.
ComesBeforeAscending(a, b) == a.connectedAt - b.connectedAt < 0

\* the comparator (a, b) => b.connectedAt - a.connectedAt is negative
ComesBefore(a, b) == b.connectedAt - a.connectedAt < 0

\* Array.prototype.sort is stable: x goes in front of the first element it
\* comes before, behind everything else.
RECURSIVE SortInsert(_, _)
SortInsert(sorted, x) ==
    IF sorted = <<>> THEN <<x>>
    ELSE IF ComesBefore(x, Head(sorted)) THEN <<x>> \o sorted
    ELSE <<Head(sorted)>> \o SortInsert(Tail(sorted), x)

RECURSIVE ArraySort(_, _)
ArraySort(q, sorted) ==
    IF q = <<>> THEN sorted ELSE ArraySort(Tail(q), SortInsert(sorted, Head(q)))

getClientDetails(cl) == ArraySort(DetailsLoop(cl, 1, <<>>), <<>>)

\* ------------------------------------------------------------------ state
Call(op, id, ctrl, writes, ret, count, threw) ==
    [op |-> op, id |-> id, ctrl |-> ctrl, writes |-> writes,
     ret |-> ret, count |-> count, threw |-> threw]

Init ==
    /\ clients = <<>>
    /\ sink = [s \in Sinks |-> "unused"]
    /\ streamClient = [s \in Sinks |-> NoClient]
    /\ now = 0
    /\ heartbeatTimer = 0
    /\ intervals = 0
    /\ last = Call("init", NoClient, NoController, <<>>, FALSE, 0, FALSE)

\* ---------------------------------------------------------------- actions
\* A mutated ensureHeartbeat: no check of heartbeatTimer before setInterval.
ensureHeartbeatUnguarded ==
    /\ intervals' = intervals + 1
    /\ heartbeatTimer' = intervals + 1

\* ensureHeartbeat(): if (heartbeatTimer) return; heartbeatTimer = setInterval(...)
ensureHeartbeat ==
    IF heartbeatTimer # 0
    THEN UNCHANGED <<heartbeatTimer, intervals>>
    ELSE /\ intervals' = intervals + 1
         /\ heartbeatTimer' = intervals + 1

\* createSSEStream(clientId, name): new ReadableStream runs start(controller)
\* at once, on a controller no one has seen before.
createSSEStream(clientId, name) ==
    /\ LET s == CHOOSE x \in Sinks : sink[x] = "unused" /\ \A y \in 1..(x - 1) : sink[y] # "unused"
           H0 == Load(clients, [sink EXCEPT ![s] = "readable"])
           H1 == addClient(H0, clientId, s, name)
           H2 == Enqueue(H1, s, OkChunk)
           H3 == Enqueue(H2, s, ConnectedChunk(clientId, name, now))
       IN  /\ clients' = Commit(H3)
           /\ sink' = H3.sink
           /\ streamClient' = [streamClient EXCEPT ![s] = clientId]
           /\ last' = Call("createSSEStream", clientId, s, H3.writes, FALSE, 0, FALSE)
    /\ ensureHeartbeat
    /\ UNCHANGED now

\* The consumer cancels stream s: the stream is closed, then cancel() runs.
cancel(s) ==
    /\ sink[s] = "readable"
    /\ LET H0 == Load(clients, [sink EXCEPT ![s] = "closed"])
           H1 == removeClient(H0, streamClient[s], NoController)
       IN  /\ clients' = Commit(H1)
           /\ sink' = H1.sink
           /\ last' = Call("cancel", streamClient[s], s, H1.writes, FALSE, 0, FALSE)
    /\ UNCHANGED <<streamClient, now, heartbeatTimer, intervals>>

\* The close helper that createSSEStream returns, i.e. removeClient, called
\* with or without a controller; last.count is the number of connections
\* the call has taken out of the registry.
close(clientId, controller) ==
    /\ \E s \in Sinks : streamClient[s] = clientId
    /\ controller # NoController => sink[controller] # "unused"
    /\ LET H0 == Load(clients, sink)
           H1 == removeClient(H0, clientId, controller)
       IN  /\ clients' = Commit(H1)
           /\ sink' = H1.sink
           /\ last' = Call("close", clientId, controller, H1.writes, FALSE,
                            totalConnections(clients) - totalConnections(Commit(H1)), FALSE)
    /\ UNCHANGED <<streamClient, now, heartbeatTimer, intervals>>

\* A mutated sendEvent: the payload is serialized before the lookup.
sendEventStringifyFirst(clientId, eventName, payload) ==
    LET H0 == Load(clients, sink)
        ref == MapGet(H0, clientId)
        data == JSONstringify(payload)
    IN  /\ IF data.threw
           THEN /\ UNCHANGED <<clients, sink>>
                /\ last' = Call("sendEvent", clientId, NoController, <<>>, FALSE, 0, TRUE)
           ELSE IF ref = 0 \/ SetSize(H0, ref) = 0
           THEN /\ UNCHANGED <<clients, sink>>
                /\ last' = Call("sendEvent", clientId, NoController, <<>>, FALSE, 0, FALSE)
           ELSE LET r == SendLoop(H0, clientId, ref, Chunk(eventName, data.text), 1, 0)
                IN  /\ clients' = Commit(r.H)
                    /\ sink' = r.H.sink
                    /\ last' = Call("sendEvent", clientId, NoController, r.H.writes,
                                    SendResult(r.sentCount), r.sentCount, FALSE)
        /\ UNCHANGED <<streamClient, now, heartbeatTimer, intervals>>

sendEvent(clientId, eventName, payload) ==
    LET H0 == Load(clients, sink)
        ref == MapGet(H0, clientId)
        data == JSONstringify(payload)
    IN  /\ IF ref = 0 \/ SetSize(H0, ref) = 0
           THEN /\ UNCHANGED <<clients, sink>>
                /\ last' = Call("sendEvent", clientId, NoController, <<>>, FALSE, 0, FALSE)
           ELSE IF data.threw
           THEN /\ UNCHANGED <<clients, sink>>
                /\ last' = Call("sendEvent", clientId, NoController, <<>>, FALSE, 0, TRUE)
           ELSE LET r == SendLoop(H0, clientId, ref, Chunk(eventName, data.text), 1, 0)
                IN  /\ clients' = Commit(r.H)
                    /\ sink' = r.H.sink
                    /\ last' = Call("sendEvent", clientId, NoController, r.H.writes,
                                    SendResult(r.sentCount), r.sentCount, FALSE)
        /\ UNCHANGED <<streamClient, now, heartbeatTimer, intervals>>

broadcast(eventName, payload) ==
    LET H0 == Load(clients, sink)
        data == JSONstringify(payload)
    IN  /\ IF data.threw
           THEN /\ UNCHANGED <<clients, sink>>
                /\ last' = Call("broadcast", NoClient, NoController, <<>>, FALSE, 0, TRUE)
           ELSE LET r == BroadcastOuter(H0, Chunk(eventName, data.text), 1, 0, 0)
                IN  /\ clients' = Commit(r.H)
                    /\ sink' = r.H.sink
                    /\ last' = Call("broadcast", NoClient, NoController, r.H.writes,
                                    FALSE, r.totalSent, FALSE)
        /\ UNCHANGED <<streamClient, now, heartbeatTimer, intervals>>

\* One run of the setInterval callback of ensureHeartbeat.
heartbeat ==
    /\ intervals > 0
    /\ LET r == HeartbeatOuter(Load(clients, sink), now, 1, 0)
       IN  /\ clients' = Commit(r.H)
           /\ sink' = r.H.sink
           /\ last' = Call("heartbeat", NoClient, NoController, r.H.writes,
                           FALSE, r.deadConnections, FALSE)
    /\ UNCHANGED <<streamClient, now, heartbeatTimer, intervals>>

\* The transport under a readable stream dies: from now on enqueue throws.
sinkFails(s) ==
    /\ sink[s] = "readable"
    /\ sink' = [sink EXCEPT ![s] = "errored"]
    /\ last' = Call("sinkFails", NoClient, s, <<>>, FALSE, 0, FALSE)
    /\ UNCHANGED <<clients, streamClient, now, heartbeatTimer, intervals>>

\* Date.now() moves on.
tick ==
    /\ now < MaxTime
    /\ now' = now + 1
    /\ last' = Call("tick", NoClient, NoController, <<>>, FALSE, 0, FALSE)
    /\ UNCHANGED <<clients, sink, streamClient, heartbeatTimer, intervals>>

\* A development hot reload evaluates the module again: `clients` is taken
\* from global.sseClients, `let heartbeatTimer = null` is a new binding, and
\* no one clears the interval the old module instance has set.
reload ==
    /\ heartbeatTimer # 0
    /\ intervals < MaxIntervals
    /\ heartbeatTimer' = 0
    /\ last' = Call("reload", NoClient, NoController, <<>>, FALSE, 0, FALSE)
    /\ UNCHANGED <<clients, sink, streamClient, now, intervals>>

\* Number of controllers created so far.
Created == Cardinality({s \in Sinks : sink[s] # "unused"})

Next ==
    \/ \E id \in ClientIds : Created < MaxSinks /\ createSSEStream(id, Undefined)
    \/ \E s \in Sinks : cancel(s)
    \/ \E id \in ClientIds, c \in {NoController} \cup Sinks : close(id, c)
    \/ \E id \in ClientIds, e \in EventNames, p \in Payloads : sendEvent(id, e, p)
    \/ \E e \in EventNames, p \in Payloads : broadcast(e, p)
    \/ heartbeat
    \/ \E s \in Sinks : sinkFails(s)
    \/ tick

Spec == Init /\ [][Next]_vars

\* The fan-out of one process with more clients and connections: streams
\* are opened, transports die, events are broadcast; the clock stands still.
NextFanout ==
    \/ \E id \in FanoutIds : Created < FanoutSinks /\ createSSEStream(id, Undefined)
    \/ \E e \in EventNames, p \in Payloads : broadcast(e, p)
    \/ \E s \in Sinks : sinkFails(s)

SpecFanout == Init /\ [][NextFanout]_vars

\* The process in development, where the module may be reloaded.
NextReload ==
    \/ Next
    \/ reload

SpecReload == Init /\ [][NextReload]_vars

\* A registry of d clients with one connection each, the first of them with
\* x more: what d + x calls of createSSEStream at time 0 leave behind.
Crowd(d, x) ==
    [i \in 1..d |->
       [key |-> ClientId(i),
        set |-> [j \in 1..(IF i = 1 THEN 1 + x ELSE 1) |->
                   Client(ClientId(i), Undefined, IF j = 1 THEN i ELSE d + j - 1, 0)]]]

InitMetrics ==
    \E d \in 0..MetricsClients, x \in 0..MetricsExtra :
        LET n == IF d = 0 THEN 0 ELSE d + x IN
        /\ clients = Crowd(d, x)
        /\ sink = [s \in 1..n |-> "readable"]
        /\ streamClient = [s \in 1..n |-> IF s <= d THEN ClientId(s) ELSE ClientId(1)]
        /\ now = 0
        /\ heartbeatTimer = (IF d = 0 THEN 0 ELSE 1)
        /\ intervals = (IF d = 0 THEN 0 ELSE 1)
        /\ last = Call("init", NoClient, NoController, <<>>, FALSE, 0, FALSE)

\* A caller reads getConnectionMetrics(); last.count is the average it got,
\* in hundredths.
readMetrics ==
    /\ last' = Call("getConnectionMetrics", NoClient, NoController, <<>>, FALSE,
                    getConnectionMetrics(clients).averageConnectionsPerClient, FALSE)
    /\ UNCHANGED <<clients, sink, streamClient, now, heartbeatTimer, intervals>>

NextMetrics == readMetrics

\* Many clients connected, and the metrics read.
SpecMetrics == InitMetrics /\ [][NextMetrics]_vars

\* Streams opened under any name and removed one by one, as time passes.
NextNamed ==
    \/ \E id \in ClientIds, name \in Names : Created < MaxSinks /\ createSSEStream(id, name)
    \/ \E id \in ClientIds, c \in {NoController} \cup Sinks : close(id, c)
    \/ tick

SpecNamed == Init /\ [][NextNamed]_vars

\* ============================================================ properties
\* Views of a registry value cl (the committed Map).
Keys(cl) == { cl[i].key : i \in 1..Len(cl) }

SetOf(cl, id) ==
    IF id \in Keys(cl) THEN cl[CHOOSE i \in 1..Len(cl) : cl[i].key = id].set ELSE <<>>

ConnsOf(cl, id) == { SetOf(cl, id)[j] : j \in 1..Len(SetOf(cl, id)) }

ControllersOf(cl, id) == { c.controller : c \in ConnsOf(cl, id) }

Registered(cl) == UNION { ControllersOf(cl, id) : id \in Keys(cl) }

\* The write attempts of the last call that went to controller s.
AttemptsTo(w, s) == { j \in 1..Len(w) : w[j].to = s }

Delivered(w) == { w[j].to : j \in { k \in 1..Len(w) : w[k].ok } }

Failed(w) == { w[j].to : j \in { k \in 1..Len(w) : ~w[k].ok } }

\* C1: in every reachable state every key of the registry has at least one
\* connection: no key with an empty connection set exists.
C1_NoEmptySet == \A i \in 1..Len(clients) : Len(clients[i].set) >= 1

\* C1 witness: a failed write has evicted the last connection of a client
\* and its key is gone, while another client is still registered.
C1_Witness ==
    /\ last.op \in {"sendEvent", "heartbeat", "broadcast"}
    /\ \E b \in Failed(last.writes) : streamClient[b] \notin Keys(clients)
    /\ clients # <<>>

\* C2 (as claimed): a cancel of one stream removes and closes only that
\* stream's connection; every other connection stays registered and open.
C2_CancelOnlyThatStream ==
    [][ last'.op = "cancel" =>
          /\ Registered(clients') = Registered(clients) \ {last'.ctrl}
          /\ \A t \in Sinks \ {last'.ctrl} : sink'[t] = sink[t] ]_vars

\* The clients a call targets: sendEvent its clientId, a sweep every key.
Targets(cl, call) == IF call.op = "sendEvent" THEN Keys(cl) \cap {call.id} ELSE Keys(cl)

Dispatched(call) == call.op \in {"sendEvent", "broadcast"} /\ ~call.threw

\* C3: when in sendEvent or broadcast the write to one of the two
\* connections of a client fails, exactly that connection is evicted: the
\* client stays registered with the other connection, which has received
\* the frame; and in every dispatch each targeted connection whose stream
\* is readable receives the frame and stays registered (later events).
C3_EvictOnlyFailed ==
    [][ Dispatched(last') =>
          \A id \in Targets(clients, last') :
            /\ \A good, bad \in ControllersOf(clients, id) :
                 ( /\ ControllersOf(clients, id) = {good, bad}
                   /\ sink[good] = "readable"
                   /\ sink[bad] # "readable" )
                 => /\ ControllersOf(clients', id) = {good}
                    /\ good \in Delivered(last'.writes)
                    /\ bad \in Failed(last'.writes)
                    /\ sink'[good] = "readable"
            /\ \A s \in ControllersOf(clients, id) :
                 sink[s] = "readable"
                 => /\ s \in ControllersOf(clients', id)
                    /\ s \in Delivered(last'.writes)
                    /\ sink'[s] = "readable" ]_vars

\* C3 witness: a dispatch to a client with two connections has failed on
\* one and delivered to the other, which alone is still registered.
C3_Witness ==
    /\ last.op \in {"sendEvent", "broadcast"}
    /\ \E id \in Keys(clients) :
         /\ Cardinality(ControllersOf(clients, id)) = 1
         /\ ControllersOf(clients, id) \subseteq Delivered(last.writes)
         /\ \E b \in Failed(last.writes) : streamClient[b] = id

\* C4: in one sendEvent, broadcast or heartbeat sweep every connection that
\* was registered in the targeted sets when the sweep started gets exactly
\* one write attempt and no other controller gets any, whichever writes fail.
C4_OneAttemptEach ==
    [][ (Dispatched(last') \/ last'.op = "heartbeat") =>
          \A s \in Sinks :
            Cardinality(AttemptsTo(last'.writes, s)) =
              IF \E id \in Targets(clients, last') : s \in ControllersOf(clients, id)
              THEN 1 ELSE 0 ]_vars

\* C4 witness: a sweep over the Map whose first write failed and deleted the
\* key of that client went on to write to the client behind it.
C4_Witness ==
    /\ last.op \in {"broadcast", "heartbeat"}
    /\ Len(last.writes) >= 2
    /\ ~last.writes[1].ok
    /\ streamClient[last.writes[1].to] \notin Keys(clients)
    /\ last.writes[Len(last.writes)].ok
    /\ streamClient[last.writes[Len(last.writes)].to] # streamClient[last.writes[1].to]

\* C5: sendEvent returns true exactly when the write succeeded on at least
\* one connection of the client; when the client had connections and every
\* write failed it returns false and the client is no longer registered.
C5_TrueIffDelivered ==
    (last.op = "sendEvent" /\ ~last.threw) =>
        /\ last.ret <=> (\E s \in Delivered(last.writes) : streamClient[s] = last.id)
        /\ (last.writes # <<>> /\ Delivered(last.writes) = {})
             => (~last.ret /\ last.id \notin Keys(clients))

\* C5 witness: sendEvent to a client with two connections, both writes
\* failed, false was returned and the client is gone.
C5_Witness ==
    /\ last.op = "sendEvent"
    /\ Len(last.writes) = 2
    /\ Delivered(last.writes) = {}
    /\ ~last.ret
    /\ last.id \notin Keys(clients)

C7_UnknownClientNoEffect ==
    [][ (last'.op = "sendEvent" /\ last'.id \notin Keys(clients)) =>
          /\ ~last'.ret
          /\ ~last'.threw
          /\ last'.writes = <<>>
          /\ clients' = clients
          /\ sink' = sink ]_vars

\* C7 witness: sendEvent for an unregistered id has returned false with no
\* write, while another client is registered.
C7_Witness ==
    /\ last.op = "sendEvent"
    /\ ~last.ret /\ ~last.threw
    /\ last.writes = <<>>
    /\ last.id \notin Keys(clients)
    /\ clients # <<>>

\* C8: sendEvent(A) writes only to connections of A and leaves the
\* connection set (with every lastSeen) of every other client and the stream
\* of every controller outside A's set unchanged, also when it evicts.
C8_OnlyTargetClient ==
    [][ last'.op = "sendEvent" =>
          /\ \A j \in 1..Len(last'.writes) :
               last'.writes[j].to \in ControllersOf(clients, last'.id)
          /\ \A id \in (Keys(clients) \cup Keys(clients')) \ {last'.id} :
               SetOf(clients', id) = SetOf(clients, id)
          /\ \A s \in Sinks \ ControllersOf(clients, last'.id) : sink'[s] = sink[s] ]_vars

\* C8 witness: sendEvent has evicted a connection of its client after a
\* failed write while another client is registered.
C8_Witness ==
    /\ last.op = "sendEvent"
    /\ Failed(last.writes) # {}
    /\ Keys(clients) \ {last.id} # {}

\* C9 (as claimed): sendEvent and broadcast never raise an exception to
\* their caller, whatever the client id, event name and payload.
C9_NeverThrows == last.op \in {"sendEvent", "broadcast"} => ~last.threw

\* C10: one heartbeat tick attempts one heartbeat write on every registered
\* connection; a connection whose write succeeds stays registered with
\* lastSeen set to the timestamp of the tick and its stream untouched; one
\* whose write fails is evicted with its stream not open; nothing else is
\* in the registry afterwards.
C10_HeartbeatTick ==
    [][ last'.op = "heartbeat" =>
          /\ \A s \in Sinks :
               Cardinality(AttemptsTo(last'.writes, s)) =
                 IF s \in Registered(clients) THEN 1 ELSE 0
          /\ \A j \in 1..Len(last'.writes) : last'.writes[j].chunk = HeartbeatChunk(now)
          /\ \A id \in Keys(clients) : \A c \in ConnsOf(clients, id) :
               IF sink[c.controller] = "readable"
               THEN /\ [c EXCEPT !.lastSeen = now] \in ConnsOf(clients', id)
                    /\ sink'[c.controller] = "readable"
               ELSE /\ c.controller \notin Registered(clients')
                    /\ sink'[c.controller] # "readable"
                    /\ c.controller \in Failed(last'.writes)
          /\ Registered(clients') \subseteq Registered(clients)
          /\ last'.count = Cardinality(Failed(last'.writes)) ]_vars

\* C10 witness: a tick has evicted the only connection of one client and
\* refreshed lastSeen of a connection of another client opened earlier.
C10_Witness ==
    /\ last.op = "heartbeat"
    /\ \E b \in Failed(last.writes) : streamClient[b] \notin Keys(clients)
    /\ \E id \in Keys(clients) : \E c \in ConnsOf(clients, id) :
         /\ c.controller \in Delivered(last.writes)
         /\ c.lastSeen = now
         /\ c.connectedAt < now

\* C11: a registered connection whose stream is dead is out of the registry
\* at the end of the next heartbeat tick at the latest, whoever else calls
\* removeClient or not: every tick leaves no connection registered whose
\* stream was dead when the tick started, and the interval that runs the
\* ticks exists whenever a connection is registered.
C11_DeadConnectionReaped ==
    [][ /\ last'.op = "heartbeat" =>
             \A s \in Sinks : sink[s] # "readable" => s \notin Registered(clients')
        /\ Registered(clients') # {} => (intervals' > 0 /\ heartbeatTimer' # 0) ]_vars

\* C11 witness: a connection whose stream had died, and that no one removed,
\* has been evicted by a heartbeat tick.
C11_Witness ==
    /\ last.op = "heartbeat"
    /\ last.count >= 1
    /\ \E s \in Failed(last.writes) : s \notin Registered(clients) /\ sink[s] = "errored"

\* C12: no heartbeat interval exists before the first addClient, exactly one
\* exists in every state after it (also when the registry is empty again),
\* and a later addClient never sets a second one.
C12_SingleHeartbeatLoop ==
    /\ Created = 0 => intervals = 0
    /\ Created > 0 => intervals = 1

\* Range of a sequence.
Range(q) == { q[i] : i \in 1..Len(q) }

\* The connections registered in cl, each as its place <<entry, position>>.
Places(cl) == { p \in (1..Len(cl)) \X Sinks : p[2] <= Len(cl[p[1]].set) }

PlacesOf(cl, id) == { p \in Places(cl) : cl[p[1]].key = id }

\* C13: in every state hasClientConnections(id) is true exactly when at least
\* one connection is registered under id, and an id without a connection
\* (never connected, or its last connection removed by removeClient, cancel
\* or a failed write) is not in getConnectedClients().
C13_HasIffRegistered ==
    \A id \in ClientIds :
        /\ hasClientConnections(clients, id) <=> PlacesOf(clients, id) # {}
        /\ PlacesOf(clients, id) = {} =>
               /\ ~hasClientConnections(clients, id)
               /\ id \notin Range(getConnectedClients(clients))

\* C13 witness: a failed write has just evicted the last connection of a
\* client while another client stays registered.
C13_Witness ==
    /\ last.op = "sendEvent"
    /\ Failed(last.writes) # {}
    /\ ~hasClientConnections(clients, last.id)
    /\ \E id \in ClientIds : hasClientConnections(clients, id)

\* C14: in every state totalConnections() is the number of registered
\* connections (the sum of the set sizes), getConnectionMetrics() reports
\* the same total, and its totalClients is getConnectedClients().length.
C14_TotalsAgree ==
    /\ totalConnections(clients) = Cardinality(Places(clients))
    /\ getConnectionMetrics(clients).totalConnections = totalConnections(clients)
    /\ getConnectionMetrics(clients).totalClients = Len(getConnectedClients(clients))

\* C14 witness: two clients with sets of different sizes.
C14_Witness ==
    /\ Len(clients) = 2
    /\ Len(clients[1].set) # Len(clients[2].set)
    /\ totalConnections(clients) = 3

\* C15: removeClient(clientId) without a controller removes every connection
\* of the client and deletes the key (hasClientConnections is false
\* afterwards), leaves none of their streams open, lowers totalConnections()
\* by exactly the size the client's set had, raises nothing, and leaves the
\* sets of all other clients and all other streams as they were.
C15_RemoveAll ==
    [][ (last'.op = "close" /\ last'.ctrl = NoController) =>
          /\ ~last'.threw
          /\ ~hasClientConnections(clients', last'.id)
          /\ last'.id \notin Keys(clients')
          /\ \A s \in ControllersOf(clients, last'.id) :
               sink'[s] = IF sink[s] = "readable" THEN "closed" ELSE sink[s]
          /\ totalConnections(clients') =
               totalConnections(clients) - Cardinality(PlacesOf(clients, last'.id))
          /\ \A id \in Keys(clients) \ {last'.id} : SetOf(clients', id) = SetOf(clients, id)
          /\ Keys(clients') = Keys(clients) \ {last'.id}
          /\ \A s \in Sinks \ ControllersOf(clients, last'.id) : sink'[s] = sink[s] ]_vars

\* C15 witness: removeClient(clientId) has removed two connections of one
\* client at once while another client stays registered.
C15_Witness ==
    /\ last.op = "close" /\ last.ctrl = NoController
    /\ last.count = 2
    /\ last.id \notin Keys(clients)
    /\ clients # <<>>

\* C16: removeClient(clientId, controller) removes and closes only the
\* connection of clientId that holds that controller: the other connections
\* of the client and all connections of other clients stay registered as
\* they were, no other stream changes, and when no connection of the client
\* holds the controller neither the registry nor any stream changes.
C16_RemoveOnlyThatConnection ==
    [][ (last'.op = "close" /\ last'.ctrl # NoController) =>
          LET id == last'.id
              c == last'.ctrl
          IN  /\ SetOf(clients', id) = SelectSeq(SetOf(clients, id), LAMBDA x : x.controller # c)
              /\ \A other \in Keys(clients) \ {id} : SetOf(clients', other) = SetOf(clients, other)
              /\ Keys(clients') \subseteq Keys(clients)
              /\ \A s \in Sinks \ {c} : sink'[s] = sink[s]
              /\ IF c \in ControllersOf(clients, id)
                 THEN sink'[c] = IF sink[c] = "readable" THEN "closed" ELSE sink[c]
                 ELSE sink' = sink /\ clients' = clients ]_vars

\* C16 witness: removeClient(clientId, controller) has removed and closed one
\* connection of a client whose other connection is still registered and open.
C16_Witness ==
    /\ last.op = "close" /\ last.ctrl # NoController
    /\ last.count = 1
    /\ sink[last.ctrl] = "closed"
    /\ \E s \in ControllersOf(clients, last.id) : s # last.ctrl /\ sink[s] = "readable"

\* C17: removeClient for a client id that is not registered, with or without
\* a controller, raises nothing, closes no stream, writes nothing and leaves
\* the registry as it was.
C17_RemoveUnknownNoOp ==
    [][ (last'.op = "close" /\ last'.id \notin Keys(clients)) =>
          /\ ~last'.threw
          /\ last'.writes = <<>>
          /\ clients' = clients
          /\ sink' = sink ]_vars

\* C17 witness: removeClient for an unregistered id, given the controller of
\* a connection another client holds, has removed nothing and that
\* connection is still registered and open.
C17_Witness ==
    /\ last.op = "close"
    /\ last.count = 0
    /\ last.id \notin Keys(clients)
    /\ last.ctrl \in Registered(clients)
    /\ sink[last.ctrl] = "readable"

\* C18: a close() that throws neither keeps a connection in the registry nor
\* reaches the caller: after removeClient without a controller none of the
\* client's connections is registered, after removeClient with the
\* controller of one of its connections that connection is not registered,
\* and after sendEvent, broadcast or a heartbeat tick no connection whose
\* write failed is registered, whatever state the streams were in, and none
\* of these calls throws.
C18_CloseFailureSwallowed ==
    [][ /\ (last'.op = "close" /\ last'.ctrl = NoController) =>
             /\ ControllersOf(clients, last'.id) \cap Registered(clients') = {}
             /\ ~last'.threw
        /\ (last'.op = "close" /\ last'.ctrl \in ControllersOf(clients, last'.id)) =>
             /\ last'.ctrl \notin Registered(clients')
             /\ ~last'.threw
        /\ (last'.op \in {"sendEvent", "broadcast", "heartbeat"} /\ Failed(last'.writes) # {}) =>
             /\ Failed(last'.writes) \cap Registered(clients') = {}
             /\ ~last'.threw ]_vars

\* C18 witness: removeClient(clientId, controller) has removed a connection
\* whose stream had already failed, so that its close() threw.
C18_Witness ==
    /\ last.op = "close" /\ last.ctrl # NoController
    /\ last.count = 1
    /\ sink[last.ctrl] = "errored"
    /\ last.ctrl \notin Registered(clients)

\* C19: the addClient of a new stream adds exactly one connection and never
\* fails: the client's set afterwards is its old set followed by a record
\* for the new controller with connectedAt = lastSeen = the time of the call,
\* hasClientConnections is true, totalConnections() is one higher, and every
\* connection registered before (of this and of other clients) is still
\* registered with the same fields.
C19_AddExactlyOne ==
    [][ last'.op = "createSSEStream" =>
          LET id == last'.id
              c == last'.ctrl
          IN  /\ ~last'.threw
              /\ c \notin Registered(clients)
              /\ \E name \in Names :
                   SetOf(clients', id) = Append(SetOf(clients, id), Client(id, name, c, now))
              /\ hasClientConnections(clients', id)
              /\ totalConnections(clients') = totalConnections(clients) + 1
              /\ Keys(clients') = Keys(clients) \cup {id}
              /\ \A other \in Keys(clients) \ {id} : SetOf(clients', other) = SetOf(clients, other) ]_vars

\* C19 witness: a second connection was added at time 1 to a client whose
\* first connection, of time 0, is still there, with another client registered.
C19_Witness ==
    /\ last.op = "createSSEStream"
    /\ Len(SetOf(clients, last.id)) = 2
    /\ SetOf(clients, last.id)[1].connectedAt = 0
    /\ SetOf(clients, last.id)[2].connectedAt = 1
    /\ SetOf(clients, last.id)[2].lastSeen = 1
    /\ SetOf(clients, last.id)[2].controller = last.ctrl
    /\ Keys(clients) \ {last.id} # {}

\* C20: in every state each controller is held by at most one connection of
\* the registry, across all clients.
C20_SinkHeldOnce ==
    \A p, q \in Places(clients) :
        clients[p[1]].set[p[2]].controller = clients[q[1]].set[q[2]].controller => p = q

\* C20 witness: three connections, two of one client, on three controllers.
C20_Witness ==
    /\ Cardinality(Places(clients)) = 3
    /\ Len(clients) = 2
    /\ Cardinality(Registered(clients)) = 3

\* C21: a controller that is out of the registry, or whose stream has been
\* closed (by cancel, removeClient or an eviction), is never written to by a
\* later sendEvent, broadcast or heartbeat tick, is never registered again,
\* and its stream never becomes readable again.
C21_ClosedNeverReused ==
    [][ \A s \in Sinks :
          (sink[s] = "closed" \/ (sink[s] # "unused" /\ s \notin Registered(clients))) =>
             /\ s \notin Registered(clients)
             /\ s \notin Registered(clients')
             /\ AttemptsTo(last'.writes, s) = {}
             /\ sink'[s] = sink[s] ]_vars

\* C21 witness: sendEvent has delivered to a client one of whose earlier
\* connections was removed and closed, and that controller got no write.
C21_Witness ==
    /\ last.op = "sendEvent"
    /\ Delivered(last.writes) # {}
    /\ \E s \in Sinks :
         /\ streamClient[s] = last.id
         /\ sink[s] = "closed"
         /\ s \notin Registered(clients)
         /\ AttemptsTo(last.writes, s) = {}

\* The __connected frames a call has written to controller s.
Confirmations(w, s) ==
    { j \in AttemptsTo(w, s) :
        \E id \in ClientIds \cup FanoutIds, name \in Names, t \in 0..MaxTime :
            w[j].chunk = ConnectedChunk(id, name, t) }

\* C22 (as claimed): the start of a new stream writes the connection
\* confirmation (__connected) to the new controller exactly once and as the
\* first thing after addClient: no other write to that controller comes
\* before it.
C22_ConfirmationFirst ==
    last.op = "createSSEStream" =>
        /\ Cardinality(Confirmations(last.writes, last.ctrl)) = 1
        /\ \A j \in Confirmations(last.writes, last.ctrl) :
             \A k \in AttemptsTo(last.writes, last.ctrl) : j <= k

\* The largest lastSeen among the connections registered under id.
NewestLastSeen(cl, id) ==
    CHOOSE t \in { c.lastSeen : c \in ConnsOf(cl, id) } :
        \A c \in ConnsOf(cl, id) : c.lastSeen <= t

\* C23: for every registered client the lastSeen that getClientDetails()
\* reports is the maximum lastSeen over the connections registered for it.
C23_LastSeenIsMax ==
    /\ \A id \in Keys(clients) : \E e \in Range(getClientDetails(clients)) : e.id = id
    /\ \A e \in Range(getClientDetails(clients)) : e.lastSeen = NewestLastSeen(clients, e.id)

\* C23 witness: a client with two connections of different lastSeen, the
\* first one the older.
C23_Witness ==
    \E i \in 1..Len(clients) :
        /\ Len(clients[i].set) >= 2
        /\ clients[i].set[1].lastSeen < clients[i].set[2].lastSeen
        /\ \E e \in Range(getClientDetails(clients)) :
             e.id = clients[i].key /\ e.lastSeen = clients[i].set[2].lastSeen

\* The entries of getClientDetails() for client id.
EntriesOf(cl, id) == { k \in 1..Len(getClientDetails(cl)) : getClientDetails(cl)[k].id = id }

\* C24: in every state getClientDetails() has exactly one entry for each
\* registered client and none for any other id, and the connectionCount of
\* an entry is the number of connections registered for that client.
C24_OneEntryPerClient ==
    /\ \A k \in 1..Len(getClientDetails(clients)) :
         /\ getClientDetails(clients)[k].id \in Keys(clients)
         /\ getClientDetails(clients)[k].connectionCount =
              Cardinality(PlacesOf(clients, getClientDetails(clients)[k].id))
    /\ \A id \in ClientIds :
         Cardinality(EntriesOf(clients, id)) = IF PlacesOf(clients, id) # {} THEN 1 ELSE 0

\* C24 witness: of the two connections of a client, removeClient(clientId,
\* controller) has removed one, and the client's entry shows connectionCount 1.
C24_Witness ==
    /\ last.op = "close" /\ last.ctrl # NoController
    /\ last.count = 1
    /\ \E k \in EntriesOf(clients, last.id) : getClientDetails(clients)[k].connectionCount = 1
    /\ \E s \in Sinks : s < last.ctrl /\ streamClient[s] # last.id /\ s \in Registered(clients)

\* C25: the entries of getClientDetails() are in descending order of
\* connectedAt: no entry has a smaller connectedAt than the one after it.
C25_SortedByConnectedAtDesc ==
    \A k \in 1..(Len(getClientDetails(clients)) - 1) :
        getClientDetails(clients)[k].connectedAt >= getClientDetails(clients)[k + 1].connectedAt

\* C25 witness: the client registered second connected later and is listed first.
C25_Witness ==
    /\ Len(clients) = 2
    /\ getClientDetails(clients)[1].id = clients[2].key
    /\ getClientDetails(clients)[1].connectedAt > getClientDetails(clients)[2].connectedAt

\* C26 (as claimed): averageConnectionsPerClient is totalConnections /
\* totalClients rounded to two decimal places, i.e. (in hundredths) the
\* integer nearest to 100 * totalConnections / totalClients with a half
\* rounded up, and with no client the metrics are 0, 0 and 0.
C26_AverageRounded ==
    last.op = "getConnectionMetrics" =>
        LET m == getConnectionMetrics(clients) IN
        /\ last.count = m.averageConnectionsPerClient
        /\ m.totalClients > 0 =>
             last.count = (200 * m.totalConnections + m.totalClients) \div (2 * m.totalClients)
        /\ m.totalClients = 0 =>
             m = [totalConnections |-> 0, totalClients |-> 0, averageConnectionsPerClient |-> 0]

\* The connection of cl that holds controller s.
ConnOf(cl, s) ==
    CHOOSE c \in UNION { ConnsOf(cl, id) : id \in Keys(cl) } : c.controller = s

\* C27: a connection that stays registered keeps its id, name and
\* connectedAt; its lastSeen changes only in a sendEvent, broadcast or
\* heartbeat tick whose write to it succeeded, and then to the time of that
\* call, which is not smaller than the old value; and lastSeen >= connectedAt
\* in every state.
C27_LastSeenOnlyOnDelivery ==
    [][ /\ \A s \in Registered(clients) \cap Registered(clients') :
             LET c == ConnOf(clients, s)
                 d == ConnOf(clients', s)
             IN  /\ d.id = c.id /\ d.name = c.name /\ d.connectedAt = c.connectedAt
                 /\ d.lastSeen # c.lastSeen =>
                      /\ last'.op \in {"sendEvent", "broadcast", "heartbeat"}
                      /\ s \in Delivered(last'.writes)
                      /\ d.lastSeen = now
                      /\ d.lastSeen >= c.lastSeen
                 /\ (last'.op \in {"sendEvent", "broadcast", "heartbeat"}
                       /\ s \in Delivered(last'.writes)) => d.lastSeen = now
        /\ \A s \in Registered(clients') :
             ConnOf(clients', s).lastSeen >= ConnOf(clients', s).connectedAt ]_vars

\* C27 witness: sendEvent at time 1 has delivered to a connection made at
\* time 0, while a connection of another client, not written to, still has
\* lastSeen 0.
C27_Witness ==
    /\ last.op = "sendEvent"
    /\ \E s \in Delivered(last.writes) :
         ConnOf(clients, s).lastSeen = 1 /\ ConnOf(clients, s).connectedAt = 0
    /\ \E s \in Registered(clients) \ Delivered(last.writes) : ConnOf(clients, s).lastSeen = 0

\* C28 (as claimed): broadcast returns the number of clients that received
\* the event, i.e. of registered clients with at least one connection on
\* which the write succeeded.
C28_BroadcastCountsClients ==
    (last.op = "broadcast" /\ ~last.threw) =>
        last.count = Cardinality({ streamClient[s] : s \in Delivered(last.writes) })

C30_OneTimerAcrossReload ==
    last.op = "createSSEStream" => (intervals = 1 /\ heartbeatTimer = 1)

====
